---- MODULE Spec2Model ----
(***************************************************************************)
(* Model of heci_example.c: the MEI session (struct mei) and the four      *)
(* operations mei_init, mei_send_msg, mei_recv_msg and mei_deinit, against *)
(* a nondeterministic device (open / ioctl / write / select / read /       *)
(* close).  Spec drives them by an arbitrary single-threaded caller,       *)
(* SpecMain by the demo flow of main.                                      *)
(***************************************************************************)
EXTENDS Integers, Sequences, FiniteSets, TLC

(* ---- bounds of the model ---- *)
MaxFd == 4          \* descriptor numbers are 0..MaxFd
MaxOpens == 2       \* number of open() calls a session issues in one run
MaxMsgLen == 1      \* max_msg_length values returned by the driver: 0..MaxMsgLen
MaxVer == 1         \* protocol versions: 0..MaxVer
MaxLen == 1         \* caller buffer lengths: 0..MaxLen

(* ---- errno values, <errno.h> ---- *)
ENOENT == 2
EINTR == 4
EBADF == 9
EACCES == 13
ENODEV == 19
EMFILE == 24

StdFds == {0, 1, 2}
Fds == 0..MaxFd
OpenErrnos == {ENOENT, EACCES}
WriteErrnos == {ENODEV}
ReadErrnos == {ENODEV}
SelectErrnos == {EINTR}
IoctlErrnos == {ENODEV}
IoctlResults == {-1, 0}
Guids == {"MEI_MKHI_HIF_FIX"}
Verbose == {TRUE}
Timeouts == {1500, 5000}

(* An automatic struct mei holds indeterminate values until the code      *)
(* assigns them; the descriptor is represented by the sentinel, an open   *)
(* descriptor of the process and a number that is not open.               *)
GarbageFds == {-1, 0, MaxFd}
GarbageMei ==
  [guid : {"indeterminate"}, initialized : BOOLEAN, verbose : BOOLEAN,
   buf_size : 0..MaxMsgLen, prot_ver : 0..MaxVer, fd : GarbageFds]

(* select() on a set holding one descriptor: -1, 0 or 1; a positive result *)
(* means that descriptor is set.                                           *)
SelectOutcomes ==
  { [rc |-> -1, isset |-> b] : b \in BOOLEAN }
    \cup { [rc |-> 0, isset |-> FALSE], [rc |-> 1, isset |-> TRUE] }

(* What the device is ready for while select waits. *)
DeviceConditions == [writable : BOOLEAN, readable : BOOLEAN]

(* The messages the device supplies to a read of up to l bytes: byte i     *)
(* of a message is (seed + i) % 256.                                       *)
Seeds == {0, 100}
DeviceMessages(l) ==
  { [i \in 1..k |-> (sd + i) % 256] : k \in 0..l, sd \in Seeds }

(* a byte of the caller's buffer that nothing has written *)
Indeterminate == -1

NoData == [max_msg_length |-> 0, protocol_version |-> 0]
NoDevice == [op |-> "none"]
NoTimeval == [tv_sec |-> 0, tv_usec |-> 0]
NoRet == [op |-> "none", kind |-> "none", val |-> 0]

VARIABLES
  me,        \* struct mei
  pc,        \* position of the caller: "idle", inside mei_init, or "exited"
  guid,      \* mei_init parameter
  req_protocol_version,  \* mei_init parameter
  data,      \* mei_init local: data.out_client_properties
  errno,     \* the C errno
  euid,      \* geteuid()
  openFds,   \* descriptors open in the process
  handles,   \* every descriptor the session opened: [fd, closes]
  cur,       \* index in handles of the open() that me.fd came from, 0 if none
  fresh,     \* no code has assigned me.initialized yet
  hs,        \* handshake of the last mei_init: "none", "ok", "failed"
  errmsg,    \* mei_err message of the current / last operation
  calls,     \* system calls issued by the current / last operation
  pre,       \* struct mei at entry of the current / last operation
  ret,       \* last completed operation: [op, kind, val]
  deinits,   \* mei_deinit calls completed in a row, counted up to 2
  tv,        \* mei_send_msg local: the timeout handed to select, if a send
  len,       \* len argument of the last operation, if a transfer
  timeout,   \* timeout argument of the last operation, if a transfer
  device,    \* what the device did in the last operation, if a transfer
  buffer,    \* the caller's buffer after the last operation, if a receive
  mpc,       \* position of main: "api" when the caller is not main
  mkhi,      \* main: struct mkhi_host_if without its mei_cl
  results,   \* main: the values mei_send_msg and mei_recv_msg returned
  resp,      \* main: GEN_GET_FW_VERSION_Response resp, as bytes
  printed    \* main: the bytes of resp that printf has read

coreVars == <<me, pc, guid, req_protocol_version, data, errno, euid, openFds,
              handles, cur, fresh, hs, errmsg, calls, pre, ret, deinits, tv,
              len, timeout, device, buffer>>
mainVars == <<mpc, mkhi, results, resp, printed>>
vars == <<coreVars, mainVars>>

InitCore ==
  /\ me \in GarbageMei
  /\ pc = "idle"
  /\ guid = "MEI_MKHI_HIF_FIX"
  /\ req_protocol_version = 0
  /\ data = NoData
  /\ errno = 0
  /\ euid \in {0, 1000}
  /\ openFds = StdFds
  /\ handles = <<>>
  /\ cur = 0
  /\ fresh = TRUE
  /\ hs = "none"
  /\ errmsg = "none"
  /\ calls = <<>>
  /\ pre = me
  /\ ret = NoRet
  /\ deinits = 0
  /\ tv = NoTimeval
  /\ len = 0
  /\ timeout = 0
  /\ device = NoDevice
  /\ buffer = <<>>

NoMkhi == [send_timeout |-> 0, initialized |-> FALSE]
NoResults == [send |-> 0, recv |-> 0]

(* a session used through its four operations by any caller *)
Init ==
  /\ InitCore
  /\ mpc = "api"
  /\ mkhi = NoMkhi
  /\ results = NoResults
  /\ resp = <<>>
  /\ printed = <<>>

(* the operation is not a transfer *)
NoTransfer ==
  /\ len' = 0
  /\ timeout' = 0
  /\ device' = NoDevice
  /\ buffer' = <<>>
  /\ tv' = NoTimeval

(* ---- mei_deinit ---- *)
(* line 100 with the test inverted *)
ClosesFd_inverted(cl) == cl.fd = -1

(* line 100 *)
ClosesFd(cl) == cl.fd # -1

(* mei_deinit without line 102 *)
mei_deinit_keeps_fd(cl) ==
  [cl EXCEPT !.buf_size = 0, !.prot_ver = 0, !.initialized = FALSE]

(* lines 102-105 *)
mei_deinit(cl) ==
  [cl EXCEPT !.fd = -1, !.buf_size = 0, !.prot_ver = 0, !.initialized = FALSE]

(* The effect of mei_deinit(me) on the session, the descriptor table and   *)
(* errno, entered with errno = eno and the calls cs issued so far.         *)
Deinit(m, eno, cs) ==
  /\ me' = mei_deinit(m)
  /\ openFds' = IF ClosesFd(m) THEN openFds \ {m.fd} ELSE openFds
  /\ handles' = IF ClosesFd(m) /\ cur # 0
                  THEN [handles EXCEPT ![cur].closes = @ + 1]
                  ELSE handles
  /\ cur' = IF mei_deinit(m).fd = m.fd THEN cur ELSE 0
  /\ errno' = IF ClosesFd(m) /\ m.fd \notin openFds THEN EBADF ELSE eno
  /\ calls' = IF ClosesFd(m) THEN Append(cs, "close") ELSE cs
  /\ fresh' = FALSE

DeinitCall ==
  /\ pc = "idle"
  /\ Deinit(me, errno, <<>>)
  /\ NoTransfer
  /\ pre' = me
  /\ ret' = [op |-> "mei_deinit", kind |-> "Ok", val |-> 0]
  /\ deinits' = IF deinits < 2 THEN deinits + 1 ELSE deinits
  /\ errmsg' = "none"
  /\ UNCHANGED <<pc, guid, req_protocol_version, data, euid, hs>>

mei_deinit_call == DeinitCall /\ UNCHANGED mainVars

(* ---- mei_init, lines 115-129: open the device ---- *)
LowestFree == CHOOSE n \in Fds \ openFds : \A m \in Fds \ openFds : n <= m

(* message printed when open() fails, chosen by geteuid() (line 119) *)
OpenFailureMessage(uid) ==
  IF uid = 0 THEN "CannotEstablishHandle" ELSE "RunWithRootPrivilege"

InitOpen(g, r, v) ==
  /\ pc = "idle"
  /\ Len(handles) < MaxOpens
  /\ NoTransfer
  /\   /\ guid' = g
       /\ req_protocol_version' = r
       /\ pre' = me
       /\ \/ /\ Fds \ openFds # {}
             /\ me' = [me EXCEPT !.verbose = v, !.fd = LowestFree]
             /\ openFds' = openFds \cup {LowestFree}
             /\ handles' = Append(handles, [fd |-> LowestFree, closes |-> 0])
             /\ cur' = Len(handles) + 1
             /\ calls' = <<"open">>
             /\ pc' = "init_mark"
             /\ errmsg' = "none"
             /\ UNCHANGED <<errno, fresh, ret, deinits>>
          \/ /\ \E e \in (IF Fds \ openFds = {} THEN {EMFILE} ELSE OpenErrnos) :
                  errno' = e
             /\ errmsg' = OpenFailureMessage(euid)
             \* root: exit(-1); otherwise mei_deinit(me), exit(-1).
             \* me->fd is -1 here, so mei_deinit closes nothing.
             /\ me' = IF euid = 0
                        THEN [me EXCEPT !.verbose = v, !.fd = -1]
                        ELSE mei_deinit([me EXCEPT !.verbose = v, !.fd = -1])
             /\ fresh' = IF euid = 0 THEN fresh ELSE FALSE
             /\ cur' = 0
             /\ calls' = <<"open">>
             /\ openFds' = {}      \* the process is gone
             /\ pc' = "exited"
             /\ deinits' = 0
             /\ ret' = [op |-> "mei_init", kind |-> "exit", val |-> -1]
             /\ UNCHANGED handles
  /\ UNCHANGED <<data, euid, hs>>

mei_init_open ==
  /\ \E g \in Guids, r \in 0..MaxVer, v \in Verbose : InitOpen(g, r, v)
  /\ UNCHANGED mainVars

(* lines 131-133 *)
InitMark ==
  /\ pc = "init_mark"
  /\ me' = [me EXCEPT !.guid = guid, !.initialized = TRUE]
  /\ data' = NoData
  /\ hs' = "none"
  /\ fresh' = FALSE
  /\ pc' = "init_ioctl"
  /\ UNCHANGED <<guid, req_protocol_version, errno, euid, openFds, handles,
                 cur, errmsg, calls, pre, ret, deinits, tv,
                 len, timeout, device, buffer>>

mei_init_mark == InitMark /\ UNCHANGED mainVars

(* What the driver did in one mei_init whose open succeeded: result of the *)
(* ioctl, requested version and returned version.                          *)
InitKind(result, req, ver) ==
  IF result # 0 THEN "ConnectRejected"
  ELSE IF req > 0 /\ ver # req THEN "ProtocolVersionMismatch"
  ELSE "Ok"

(* line 138 testing for a positive result only *)
IoctlFailed_positive(result) == result > 0

(* line 138 *)
IoctlFailed(result) == result # 0

(* lines 135-141: IOCTL_MEI_CONNECT_CLIENT.  The driver fills             *)
(* data.out_client_properties only when the request succeeds.              *)
InitIoctl ==
  /\ pc = "init_ioctl"
  /\ \E result \in IoctlResults, l \in 0..MaxMsgLen, v \in 0..MaxVer,
        e \in IoctlErrnos :
       /\ data' = IF result = 0
                    THEN [max_msg_length |-> l, protocol_version |-> v]
                    ELSE data
       /\ hs' = IF result = 0 THEN "ok" ELSE "failed"
       /\ IF IoctlFailed(result)
            THEN /\ Deinit(me, IF result = 0 THEN errno ELSE e,
                           Append(calls, "ioctl"))
                 /\ errmsg' = "IoctlConnectClient"
                 /\ pc' = "idle"
                 /\ deinits' = 0
                 /\ ret' = [op |-> "mei_init",
                            kind |-> InitKind(result, req_protocol_version, v),
                            val |-> FALSE]
            ELSE /\ errno' = IF result = 0 THEN errno ELSE e
                 /\ calls' = Append(calls, "ioctl")
                 /\ pc' = "init_finish"
                 /\ UNCHANGED <<me, openFds, handles, cur, fresh, errmsg,
                                ret, deinits>>
  /\ UNCHANGED <<guid, req_protocol_version, euid, pre, tv,
                 len, timeout, device, buffer>>

mei_init_ioctl == InitIoctl /\ UNCHANGED mainVars

(* lines 147-148 without the req_protocol_version > 0 test *)
VersionRejected_always(req, ver) == ver # req

(* lines 147-148 *)
VersionRejected(req, ver) == req > 0 /\ ver # req

(* lines 143-160 *)
InitFinish ==
  /\ pc = "init_finish"
  /\ IF VersionRejected(req_protocol_version, data.protocol_version)
       THEN /\ Deinit(me, errno, calls)
            /\ errmsg' = "ProtocolVersionNotSupported"
            /\ ret' = [op |-> "mei_init",
                       kind |-> InitKind(0, req_protocol_version,
                                         data.protocol_version),
                       val |-> FALSE]
       ELSE /\ me' = [me EXCEPT !.buf_size = data.max_msg_length,
                                !.prot_ver = data.protocol_version]
            /\ ret' = [op |-> "mei_init",
                       kind |-> InitKind(0, req_protocol_version,
                                         data.protocol_version),
                       val |-> TRUE]
            /\ UNCHANGED <<errno, openFds, handles, cur, fresh, errmsg, calls>>
  /\ pc' = "idle"
  /\ deinits' = 0
  /\ UNCHANGED <<guid, req_protocol_version, data, euid, hs, pre, tv,
                 len, timeout, device, buffer>>

mei_init_finish == InitFinish /\ UNCHANGED mainVars

(* ---- the device: write and read on descriptor f ---- *)
DeviceWriteOutcomes(l) ==
  { [n |-> l, eno |-> 0] } \cup { [n |-> -1, eno |-> e] : e \in WriteErrnos }

DeviceReadOutcomes(l) ==
  { [n |-> Len(b), eno |-> 0, bytes |-> b] : b \in DeviceMessages(l) }
    \cup { [n |-> -1, eno |-> e, bytes |-> <<>>] : e \in ReadErrnos }

WriteOutcomes(f, l) ==
  IF f \notin openFds
    THEN { [n |-> -1, eno |-> EBADF] }
    ELSE DeviceWriteOutcomes(l)

ReadOutcomes(f, l) ==
  IF f \notin openFds
    THEN { [n |-> -1, eno |-> EBADF, bytes |-> <<>>] }
    ELSE DeviceReadOutcomes(l)

(* read() stores the bytes it returns at the start of the buffer *)
ReadInto(buf, bytes) ==
  [i \in DOMAIN buf |-> IF i <= Len(bytes) THEN bytes[i] ELSE buf[i]]

(* line 204: the descriptor set is handed to select as readfds, so the     *)
(* descriptor counts as ready when the device has data to read.            *)
SelectReady(cond) == cond.readable

(* results of select(me->fd + 1, &set, NULL, NULL, &tv) under a condition  *)
SelectOn(cond) ==
  { o \in SelectOutcomes : o.rc < 0 \/ ((o.rc > 0) <=> SelectReady(cond)) }

NoCondition == [writable |-> FALSE, readable |-> FALSE]
NoSelect == [rc |-> 0, isset |-> FALSE]

(* What the device did in one receive / one send. *)
RecvKind(rc) == IF rc < 0 THEN "ReadFailed" ELSE "Ok"

SendKind(written, sel) ==
  IF written < 0 THEN "WriteFailed"
  ELSE IF sel.rc = 0 THEN "SendTimeout"
  ELSE IF sel.rc < 0 THEN "WaitFailed"
  ELSE "Ok"

(* ---- mei_recv_msg ---- *)
(* line 170 *)
RecvTearsDown(rc) == rc < 0

(* mei_recv_msg with a deadline: gives up at once on a short timeout *)
RecvEffect_deadline(m, r, t) ==
  IF t < 5000
    THEN [rc |-> -1, me |-> mei_deinit(m)]
    ELSE [rc |-> r.n, me |-> IF RecvTearsDown(r.n) THEN mei_deinit(m) ELSE m]

(* lines 169-178: return value and session after read() behaved as r *)
RecvEffect(m, r, t) ==
  [rc |-> r.n, me |-> IF RecvTearsDown(r.n) THEN mei_deinit(m) ELSE m]

(* mei_recv_msg reading again after a failed read *)
mei_recv_calls_retry(rc) == IF rc < 0 THEN <<"read", "read">> ELSE <<"read">>

(* line 169: the system calls of one mei_recv_msg before any teardown *)
mei_recv_calls(rc) == <<"read">>

RecvMsg(l, t) ==
  /\ pc = "idle"
  /\ \E r \in ReadOutcomes(me.fd, l) :
       LET rc == RecvEffect(me, r, t).rc IN
       /\ IF RecvTearsDown(rc)
            THEN /\ Deinit(me, IF r.n < 0 THEN r.eno ELSE errno,
                           mei_recv_calls(r.n))
                 /\ errmsg' = "ReadFailed"
            ELSE /\ errno' = IF r.n < 0 THEN r.eno ELSE errno
                 /\ calls' = mei_recv_calls(r.n)
                 /\ errmsg' = "none"
                 /\ UNCHANGED <<me, openFds, handles, cur, fresh>>
       /\ ret' = [op |-> "mei_recv_msg", kind |-> RecvKind(r.n), val |-> rc]
       /\ device' = [op |-> "read", n |-> r.n, eno |-> r.eno,
                     bytes |-> r.bytes]
       /\ buffer' = ReadInto([i \in 1..l |-> Indeterminate], r.bytes)
  /\ len' = l
  /\ timeout' = t
  /\ pre' = me
  /\ tv' = NoTimeval
  /\ deinits' = 0
  /\ UNCHANGED <<pc, guid, req_protocol_version, data, euid, hs>>

mei_recv_msg ==
  /\ \E l \in 0..MaxLen, t \in Timeouts : RecvMsg(l, t)
  /\ UNCHANGED mainVars

(* ---- mei_send_msg ---- *)
(* lines 188-189 *)
SendTimeval(t) ==
  [tv_sec |-> t \div 1000, tv_usec |-> (t % 1000) * 1000000]

(* line 216 missing: the result of select is returned *)
mei_send_rc_select(written, eno, sel) ==
  IF written < 0 THEN -eno ELSE sel.rc

(* lines 195-216: rc at label out *)
mei_send_rc(written, eno, sel) ==
  IF written < 0 THEN -eno
  ELSE IF sel.rc > 0 /\ sel.isset THEN written
  ELSE sel.rc

(* lines 197, 209, 212: the message printed on the way to label out *)
mei_send_errmsg(written, sel) ==
  IF written < 0 THEN "WriteFailed"
  ELSE IF sel.rc > 0 /\ sel.isset THEN "none"
  ELSE IF sel.rc = 0 THEN "WriteTimeout"
  ELSE "WriteSelectFailed"

(* line 218 comparing with -1 instead of 0 *)
SendTearsDown_below_minus_one(rc) == rc < -1

(* line 218 tearing down on a result of 0 too *)
SendTearsDown_not_positive(rc) == rc <= 0

(* line 218 *)
SendTearsDown(rc) == rc < 0

(* mei_send_msg writing again after a failed write *)
mei_send_calls_retry(written) ==
  IF written < 0 THEN <<"write", "write">> ELSE <<"write", "select">>

(* lines 193-204: the system calls of one mei_send_msg before any teardown *)
mei_send_calls(written) ==
  IF written < 0 THEN <<"write">> ELSE <<"write", "select">>

SendMsg(l, t) ==
  /\ pc = "idle"
  /\ \E w \in WriteOutcomes(me.fd, l), se \in SelectErrnos :
       \* select is not reached after a failed write
       \E cond \in (IF w.n < 0 THEN {NoCondition} ELSE DeviceConditions) :
       \E sel \in (IF w.n < 0 THEN {NoSelect} ELSE SelectOn(cond)) :
         LET written == w.n
             rc == mei_send_rc(written, w.eno, sel)
             eno == IF written < 0 THEN w.eno
                    ELSE IF sel.rc < 0 THEN se ELSE errno
             cs == mei_send_calls(written)
         IN
         /\ tv' = SendTimeval(t)
         /\ errmsg' = mei_send_errmsg(written, sel)
         /\ IF SendTearsDown(rc)
              THEN Deinit(me, eno, cs)
              ELSE /\ errno' = eno
                   /\ calls' = cs
                   /\ UNCHANGED <<me, openFds, handles, cur, fresh>>
         /\ ret' = [op |-> "mei_send_msg", kind |-> SendKind(written, sel),
                    val |-> rc]
         /\ device' = [op |-> "write", n |-> w.n, eno |-> w.eno,
                       writable |-> cond.writable,
                       readable |-> cond.readable, rc |-> sel.rc]
  /\ len' = l
  /\ timeout' = t
  /\ buffer' = <<>>
  /\ pre' = me
  /\ deinits' = 0
  /\ UNCHANGED <<pc, guid, req_protocol_version, data, euid, hs>>

mei_send_msg ==
  /\ \E l \in 0..MaxLen, t \in Timeouts : SendMsg(l, t)
  /\ UNCHANGED mainVars

Next ==
  \/ mei_init_open
  \/ mei_init_mark
  \/ mei_init_ioctl
  \/ mei_init_finish
  \/ mei_send_msg
  \/ mei_recv_msg
  \/ mei_deinit_call

Spec == Init /\ [][Next]_vars

(* ======================================================================= *)
(* The demo flow: main, lines 248-277                                      *)
(* ======================================================================= *)
HeaderSize == 4          \* sizeof(GEN_GET_FW_VERSION)
ResponseSize == 20       \* sizeof(GEN_GET_FW_VERSION_Response)
MainTimeout == 5000
DefaultSendTimeout == 20000

(* the bytes of resp that hold CodeMinor, CodeMajor, CodeBuild, CodeHotfix *)
PrintedBytes == 5..12

(* struct mkhi_host_if mkhi_cmd is automatic: indeterminate until assigned *)
InitMain ==
  /\ InitCore
  /\ mpc = "start"
  /\ mkhi \in [send_timeout : {0}, initialized : BOOLEAN]
  /\ results = NoResults
  /\ resp = [i \in 1..ResponseSize |-> Indeterminate]
  /\ printed = <<>>

(* line 234 *)
SendTimeoutOrDefault(t) == IF t # 0 THEN t ELSE DefaultSendTimeout

(* line 251 and lines 234-236: main calls mkhi_host_if_fix_init, which     *)
(* calls mei_init with req_protocol_version 0.                             *)
main_fix_init ==
  /\ mpc = "start"
  /\ InitOpen("MEI_MKHI_HIF_FIX", 0, TRUE)
  /\ mkhi' = [mkhi EXCEPT !.send_timeout = SendTimeoutOrDefault(MainTimeout)]
  /\ mpc' = IF pc' = "exited" THEN "exited" ELSE "fix_init"
  /\ UNCHANGED <<results, resp, printed>>

main_init_mark == mpc = "fix_init" /\ InitMark /\ UNCHANGED mainVars

main_init_ioctl == mpc = "fix_init" /\ InitIoctl /\ UNCHANGED mainVars

main_init_finish == mpc = "fix_init" /\ InitFinish /\ UNCHANGED mainVars

(* lines 235-238 and 251-259: mei_init has returned *)
main_fix_init_return ==
  /\ mpc = "fix_init"
  /\ pc = "idle"
  /\ mkhi' = [mkhi EXCEPT !.initialized = ret.val]
  /\ mpc' = IF ret.val THEN "send" ELSE "init_failed"
  /\ UNCHANGED <<coreVars, results, resp, printed>>

(* lines 254-256 *)
main_init_failed ==
  /\ mpc = "init_failed"
  /\ DeinitCall
  /\ mpc' = "returned"
  /\ UNCHANGED <<mkhi, results, resp, printed>>

(* lines 264-266: the value returned is not looked at *)
main_send ==
  /\ mpc = "send"
  /\ SendMsg(HeaderSize, MainTimeout)
  /\ results' = [results EXCEPT !.send = ret'.val]
  /\ mpc' = "recv"
  /\ UNCHANGED <<mkhi, resp, printed>>

(* lines 268-270: the value returned is not looked at *)
main_recv ==
  /\ mpc = "recv"
  /\ RecvMsg(ResponseSize, MainTimeout)
  /\ results' = [results EXCEPT !.recv = ret'.val]
  /\ resp' = ReadInto(resp, device'.bytes)
  /\ mpc' = "deinit"
  /\ UNCHANGED <<mkhi, printed>>

(* line 272 *)
main_deinit ==
  /\ mpc = "deinit"
  /\ DeinitCall
  /\ mpc' = "print"
  /\ UNCHANGED <<mkhi, results, resp, printed>>

(* lines 274-277 *)
main_print ==
  /\ mpc = "print"
  /\ printed' = [i \in PrintedBytes |-> resp[i]]
  /\ mpc' = "returned"
  /\ UNCHANGED <<coreVars, mkhi, results, resp>>

NextMain ==
  \/ main_fix_init
  \/ main_init_mark
  \/ main_init_ioctl
  \/ main_init_finish
  \/ main_fix_init_return
  \/ main_init_failed
  \/ main_send
  \/ main_recv
  \/ main_deinit
  \/ main_print

SpecMain == InitMain /\ [][NextMain]_vars

(* ======================================================================= *)
(* Properties                                                              *)
(* ======================================================================= *)
LastHandle == handles[Len(handles)]

CountCalls(name) == Cardinality({i \in DOMAIN calls : calls[i] = name})

Uninitialized(m) ==
  ~m.initialized /\ m.fd = -1 /\ m.buf_size = 0 /\ m.prot_ver = 0

(* The last operation was entered on a session that a successful mei_init *)
(* had made Ready: it held the descriptor of the latest open().           *)
PreReady ==
  /\ Len(handles) > 0
  /\ pre.initialized
  /\ pre.fd = LastHandle.fd

(* C1: send and receive on a fresh (never connected) or torn-down session  *)
(* fail with NotInitialized and issue no write, select or read.            *)
C1_NoIoBeforeInit ==
  (/\ pc = "idle"
   /\ ret.op \in {"mei_send_msg", "mei_recv_msg"}
   /\ (Len(handles) = 0 \/ ~pre.initialized))
  => /\ ret.kind = "NotInitialized"
     /\ ret.val < 0
     /\ \A i \in DOMAIN calls : calls[i] \notin {"write", "select", "read"}

(* C2: a send on a Ready session whose write succeeds and whose readiness  *)
(* wait returns 0 returns a failure value and leaves the session           *)
(* Uninitialized with its descriptor closed.                               *)
C2_TimeoutTearsDown ==
  (/\ pc = "idle"
   /\ ret.op = "mei_send_msg"
   /\ PreReady
   /\ ret.kind = "SendTimeout")
  => /\ ret.val < 0
     /\ Uninitialized(me)
     /\ pre.fd \notin openFds

(* C3: a failed write, a negative readiness-wait result or a negative read *)
(* result on a Ready session returns a negative value, leaves the session  *)
(* Uninitialized and closes the descriptor exactly once.                   *)
C3_FatalTeardown ==
  (/\ pc = "idle"
   /\ PreReady
   /\ \/ ret.op = "mei_send_msg" /\ ret.kind \in {"WriteFailed", "WaitFailed"}
      \/ ret.op = "mei_recv_msg" /\ ret.kind = "ReadFailed")
  => /\ ret.val < 0
     /\ Uninitialized(me)
     /\ pre.fd \notin openFds
     /\ LastHandle.closes = 1
     /\ CountCalls("close") = 1

C3_Witness ==
  /\ pc = "idle"
  /\ PreReady
  /\ ret.op = "mei_send_msg"
  /\ ret.kind = "WaitFailed"
  /\ LastHandle.closes = 1

(* C4: after a successful handshake, a requested version r > 0 that        *)
(* differs from the returned version makes mei_init fail, with the session *)
(* Uninitialized and the descriptor released; with r = 0 every returned    *)
(* version is accepted and stored with the returned max message length.    *)
C4_NegotiationGate ==
  (pc = "idle" /\ ret.op = "mei_init" /\ hs = "ok")
  => /\ (req_protocol_version > 0
          /\ data.protocol_version # req_protocol_version)
        => /\ ret.val = FALSE
           /\ Uninitialized(me)
           /\ LastHandle.closes = 1
           /\ LastHandle.fd \notin openFds
     /\ req_protocol_version = 0
        => /\ ret.val = TRUE
           /\ me.initialized
           /\ me.fd = LastHandle.fd
           /\ me.fd \in openFds
           /\ me.prot_ver = data.protocol_version
           /\ me.buf_size = data.max_msg_length

C4_Witness ==
  /\ pc = "idle"
  /\ ret.op = "mei_init"
  /\ hs = "ok"
  /\ req_protocol_version = 0
  /\ data.protocol_version > 0
  /\ me.prot_ver = data.protocol_version

(* C5: a second mei_deinit right after a first one closes nothing and      *)
(* leaves the session as the first call left it; no descriptor of the      *)
(* session is ever closed more than once.                                  *)
C5_IdempotentClose ==
  /\ [](\A i \in DOMAIN handles : handles[i].closes <= 1)
  /\ [][(ret.op = "mei_deinit" /\ mei_deinit_call)
          => (me' = me /\ openFds' = openFds /\ handles' = handles
              /\ calls' = <<>>)]_vars

C5_Witness ==
  /\ pc = "idle"
  /\ ret.op = "mei_deinit"
  /\ deinits = 2
  /\ Len(handles) > 0
  /\ LastHandle.closes = 1
  /\ Uninitialized(me)

(* C6: in every state of a session, the states inside mei_init included,   *)
(* initialized implies an open descriptor and negotiated parameters equal  *)
(* to the values the handshake returned.                                   *)
C6_InitializedImpliesNegotiated ==
  (pc # "exited" /\ ~fresh /\ me.initialized)
  => /\ me.fd # -1
     /\ me.fd \in openFds
     /\ hs = "ok"
     /\ me.buf_size = data.max_msg_length
     /\ me.prot_ver = data.protocol_version

(* C7: between operations at most one descriptor opened by the session is  *)
(* live, it is the one the session holds, and every other descriptor it    *)
(* opened has been closed exactly once.                                    *)
C7_SingleLiveHandle ==
  pc = "idle"
  => /\ Cardinality({i \in DOMAIN handles : handles[i].closes = 0}) <= 1
     /\ \A i \in DOMAIN handles :
          /\ handles[i].closes <= 1
          /\ handles[i].closes = 0 => i = cur

(* C8: when the connect-client ioctl fails, mei_init returns failure, the  *)
(* session is Uninitialized and the descriptor that mei_init opened is     *)
(* closed.                                                                 *)
C8_ConnectRejectedCleanup ==
  (pc = "idle" /\ ret.op = "mei_init" /\ hs = "failed")
  => /\ ret.val = FALSE
     /\ Uninitialized(me)
     /\ LastHandle.closes = 1
     /\ LastHandle.fd \notin openFds

C8_Witness ==
  /\ pc = "idle"
  /\ ret.op = "mei_init"
  /\ ret.kind = "ConnectRejected"
  /\ hs = "failed"
  /\ LastHandle.closes = 1

(* C9: when open fails, the permission outcome (the run-as-root message)   *)
(* is reported exactly for an access-denied failure of a non-privileged    *)
(* caller, and a missing node is reported as unavailable whatever the      *)
(* privilege.                                                              *)
C9_OpenFailureOutcome ==
  pc = "exited"
  => /\ (errmsg = "RunWithRootPrivilege") <=> (errno = EACCES /\ euid # 0)
     /\ errno = ENOENT => errmsg = "CannotEstablishHandle"

(* C10: on a session that has been connected, a failure of an operation  *)
(* returns a value that no other outcome of that operation returns,        *)
(* neither a success nor another failure kind.                             *)
FailureKinds ==
  {"ConnectRejected", "ProtocolVersionMismatch", "WriteFailed", "SendTimeout",
   "WaitFailed", "ReadFailed"}

(* kind and value of every outcome of an operation on an open descriptor; *)
(* mei_init returns false at line 160 and true at line 156.               *)
OutcomesOf(op) ==
  IF op = "mei_init"
    THEN { [kind |-> InitKind(r, q, v),
            val |-> ~(IoctlFailed(r) \/ VersionRejected(q, v))] :
             r \in IoctlResults, q \in 0..MaxVer, v \in 0..MaxVer }
  ELSE IF op = "mei_send_msg"
    THEN UNION { { [kind |-> SendKind(w.n, sel),
                    val |-> mei_send_rc(w.n, w.eno, sel)] :
                     w \in DeviceWriteOutcomes(l), sel \in SelectOutcomes } :
                 l \in 0..MaxLen }
  ELSE IF op = "mei_recv_msg"
    THEN UNION { { [kind |-> RecvKind(r.n), val |-> r.n] :
                     r \in DeviceReadOutcomes(l) } : l \in 0..MaxLen }
  ELSE {}

C10_DistinctFailureValues ==
  (pc = "idle" /\ Len(handles) > 0 /\ ret.kind \in FailureKinds)
  => \A o \in OutcomesOf(ret.op) : o.kind # ret.kind => o.val # ret.val

(* ----------------------------------------------------------------------- *)
(* The session states of the state machine in the specification.           *)
Ready(m) == m.initialized /\ m.fd \in openFds

TransferOps == {"mei_send_msg", "mei_recv_msg"}

TransferFailures == {"WriteFailed", "SendTimeout", "WaitFailed", "ReadFailed"}

(* what read() did in the last mei_recv_msg, as a record of ReadOutcomes *)
LastRead == [n |-> device.n, eno |-> device.eno, bytes |-> device.bytes]

(* C11: on a Ready session, when the device accepts the n-byte write and   *)
(* select reports the descriptor ready, mei_send_msg returns n; when       *)
(* read() yields m bytes, mei_recv_msg returns m and the first m bytes of  *)
(* the caller's buffer are the bytes the device supplied, the rest of the  *)
(* buffer being left as it was.                                            *)
C11_RoundTrip ==
  (pc = "idle" /\ PreReady) =>
    /\ (ret.op = "mei_send_msg" /\ device.n = len /\ device.rc > 0)
         => ret.val = len
    /\ (ret.op = "mei_recv_msg" /\ device.n >= 0)
         => /\ ret.val = Len(device.bytes)
            /\ ret.val <= len
            /\ Len(buffer) = len
            /\ \A i \in 1..len :
                 buffer[i] = IF i <= ret.val THEN device.bytes[i]
                                             ELSE Indeterminate

C11_Witness ==
  /\ pc = "idle" /\ PreReady
  /\ ret.op = "mei_recv_msg"
  /\ ret.val = MaxLen
  /\ buffer = device.bytes

(* C12: after every completed operation on a session that has been         *)
(* connected, the session is either Ready or Uninitialized with every      *)
(* handle closed, and a transfer failure on a Ready session leaves it      *)
(* Uninitialized.                                                          *)
C12_TwoStates ==
  (pc = "idle" /\ Len(handles) > 0) =>
    /\ \/ Ready(me)
       \/ Uninitialized(me) /\ \A i \in DOMAIN handles : handles[i].closes > 0
    /\ (PreReady /\ ret.op \in TransferOps /\ ret.kind \in TransferFailures)
         => Uninitialized(me)

(* C13: after a successful write on a Ready session, when select did not   *)
(* fail and the device became writable before the deadline, mei_send_msg   *)
(* returns the number of bytes written and the session is left as it was.  *)
C13_WaitsForWritable ==
  (/\ pc = "idle" /\ PreReady
   /\ ret.op = "mei_send_msg"
   /\ device.n >= 0 /\ device.rc >= 0
   /\ device.writable)
  => (ret.val = device.n /\ me = pre)

(* C14: the timeval handed to select by mei_send_msg stands for exactly    *)
(* timeout milliseconds, with tv_usec inside a second.                     *)
C14_TimevalIsDeadline ==
  (pc = "idle" /\ ret.op = "mei_send_msg") =>
    /\ tv.tv_sec * 1000000 + tv.tv_usec = timeout * 1000
    /\ 0 <= tv.tv_usec /\ tv.tv_usec < 1000000

(* C15: one mei_send_msg issues at most one write and one select, one      *)
(* mei_recv_msg at most one read, and neither opens the device nor issues  *)
(* the connect ioctl.                                                      *)
C15_NoRetries ==
  (pc = "idle" /\ ret.op \in TransferOps) =>
    /\ CountCalls("open") = 0 /\ CountCalls("ioctl") = 0
    /\ ret.op = "mei_send_msg"
         => /\ CountCalls("write") <= 1 /\ CountCalls("select") <= 1
            /\ CountCalls("read") = 0
    /\ ret.op = "mei_recv_msg"
         => /\ CountCalls("read") <= 1
            /\ CountCalls("write") = 0 /\ CountCalls("select") = 0

C15_Witness ==
  /\ pc = "idle" /\ PreReady
  /\ ret.op \in TransferOps
  /\ ret.kind \in {"WriteFailed", "ReadFailed"}
  /\ CountCalls("close") = 1

(* C16: the value mei_recv_msg returned and the session it left are those  *)
(* it gives for every timeout, on the same session against the same        *)
(* behaviour of read().                                                    *)
C16_DeadlineIndependent ==
  (pc = "idle" /\ ret.op = "mei_recv_msg") =>
    \A t \in Timeouts :
      RecvEffect(pre, LastRead, t) = [rc |-> ret.val, me |-> me]

C16_Witness ==
  /\ pc = "idle" /\ PreReady
  /\ ret.op = "mei_recv_msg"
  /\ timeout = 1500
  /\ ret.val = MaxLen
  /\ Ready(me)

(* a step that changes buf_size or prot_ver of a session that mei_init     *)
(* had connected                                                           *)
NegotiatedChange ==
  /\ Len(handles) > 0 /\ me.initialized /\ me.fd = LastHandle.fd
  /\ me'.buf_size # me.buf_size \/ me'.prot_ver # me.prot_ver

(* C17 as stated: a successful transfer leaves the session unchanged, and  *)
(* buf_size and prot_ver change only inside mei_init and in a call of      *)
(* mei_deinit by the caller.                                               *)
C17_ChangeOnlyInConnectAndClose ==
  [][ /\ (pc = "idle" /\ pc' = "idle" /\ ret'.op \in TransferOps
             /\ ret'.kind = "Ok") => me' = me
      /\ NegotiatedChange
           => \/ pc # "idle" \/ pc' # "idle"
              \/ ret'.op = "mei_deinit" ]_vars

(* C17: a successful transfer leaves fd, initialized, guid, buf_size and   *)
(* prot_ver unchanged; buf_size and prot_ver change only inside mei_init,  *)
(* in a call of mei_deinit by the caller, and in the teardown of a send or *)
(* receive that returned a negative value.                                 *)
C17_Frame ==
  [][ /\ (pc = "idle" /\ pc' = "idle" /\ ret'.op \in TransferOps
             /\ ret'.kind = "Ok") => me' = me
      /\ NegotiatedChange
           => \/ pc # "idle" \/ pc' # "idle"
              \/ ret'.op = "mei_deinit"
              \/ ret'.op \in TransferOps /\ ret'.val < 0 ]_vars

C17_Witness ==
  /\ pc = "idle" /\ PreReady
  /\ ret.op = "mei_send_msg" /\ ret.kind = "Ok"
  /\ ret.val = 0
  /\ me = pre
  /\ me.buf_size > 0

(* ----------------------------------------------------------------------- *)
(* main: mkhi_host_if_fix_init has returned to main                        *)
AfterFixInit == mpc \in {"init_failed", "send", "recv", "deinit", "print",
                         "returned"}

(* C18: once mkhi_host_if_fix_init has returned, the wrapper's initialized *)
(* flag equals the session's initialized flag.                             *)
C18_WrapperFlagEqual ==
  AfterFixInit => mkhi.initialized = me.initialized

(* C19: main prints the version fields of resp only when mei_send_msg      *)
(* returned the length of the request and mei_recv_msg returned the size   *)
(* of the whole response.                                                  *)
C19_PrintsOnlyCompleteResponse ==
  printed # <<>> =>
    /\ results.send = HeaderSize
    /\ results.recv = ResponseSize

(* C20: when main returns, the session is Uninitialized and every          *)
(* descriptor it opened has been closed exactly once.                      *)
C20_CleanupOnReturn ==
  mpc = "returned" =>
    /\ Uninitialized(me)
    /\ openFds = StdFds
    /\ \A i \in DOMAIN handles : handles[i].closes = 1

C20_Witness ==
  /\ mpc = "returned"
  /\ Len(handles) = 1
  /\ results.send = 0
  /\ printed # <<>>
====
